---- MODULE Spec2Model ----
(***************************************************************************)
(* chiller~ : spectral freeze / granular resynthesis engine                *)
(* (src/chiller~.cpp).                                                     *)
(*                                                                         *)
(* Numbers.  The program computes in double precision.  The model computes *)
(* in fixed point, exactly:                                                *)
(*   - the five parameters are held in tenths (position 0.5 is 5, grain    *)
(*     rate 1.0 is 10, ...);                                               *)
(*   - signal values (source samples, analysis_buffer, fft_buffer,         *)
(*     frozen_spectrum) are integers in units of 1/1200; a complex value   *)
(*     is a pair <<re, im>>;                                               *)
(*   - window coefficients are in quarters (0.75 is 3);                    *)
(*   - overlap accumulators are in units of 1/48000 (signal unit, times    *)
(*     the window unit 1/4, times the gain unit 1/10), output samples in   *)
(*     units of 1/480000, so that the 0.8 / 1.0 gains and the 0.1 output   *)
(*     scale need no division;                                             *)
(*   - the clock is in milliseconds.                                       *)
(* The model runs the engine at FFT size 4, where the radix-2 twiddle      *)
(* factors (-1 and i) and the Hann window (0, 3/4, 3/4, 0) are exact, and  *)
(* on source data for which the normalisation factor is rational.  Values  *)
(* that leave the grid (only possible when the two threads race on a       *)
(* buffer) are rounded down, as the doubles would be rounded.              *)
(***************************************************************************)
EXTENDS Integers, Sequences, FiniteSets, TLC

\* ------------------------------------------------------------------------
\* Bounds of the model
\* ------------------------------------------------------------------------

\* The clock is not advanced beyond this reading (ms).
MaxClock == 1000

\* Largest audio block (sampleframes) the host delivers.
MaxBlock == 2

\* Captures started in a run of the two threads statement by statement.
MaxCaptures == 2

\* Audio blocks started in a run of the two threads statement by statement.
MaxRuns == 1

\* ------------------------------------------------------------------------
\* Program constants
\* ------------------------------------------------------------------------

\* x->fft_size, fixed at construction (lines 110-120).  The program accepts
\* 512..8192; the model runs the same code at size 4.
FftSize == 4

CHILLER_DEFAULT_FFT_SIZE == 2048

\* min_interval in chiller_set_position (ms).
min_interval == 500

NULL == "NULL"

\* ------------------------------------------------------------------------
\* Arithmetic helpers
\* ------------------------------------------------------------------------

\* CLAMP(a, lo, hi) of the Max SDK.
CLAMP(a, lo, hi) == IF a < lo THEN lo ELSE IF a > hi THEN hi ELSE a

\* std::complex<double> arithmetic on pairs <<re, im>>.
CAdd(a, b) == <<a[1] + b[1], a[2] + b[2]>>
CSub(a, b) == <<a[1] - b[1], a[2] - b[2]>>
CMul(a, b) == <<a[1] * b[1] - a[2] * b[2], a[1] * b[2] + a[2] * b[1]>>
CConj(a) == <<a[1], 0 - a[2]>>
CScale(a, num, den) == <<(a[1] * num) \div den, (a[2] * num) \div den>>

\* |a|^2, as magnitude * magnitude in chiller_capture_spectrum.
CNorm2(a) == a[1] * a[1] + a[2] * a[2]

\* floor(sqrt(n)) for 0 <= n < 2^30, by bisection: lo * lo <= n < hi * hi.
RECURSIVE SqrtBetween(_, _, _)
SqrtBetween(n, lo, hi) ==
    IF hi - lo <= 1 THEN lo
    ELSE LET mid == (lo + hi) \div 2
         IN IF mid * mid <= n THEN SqrtBetween(n, mid, hi)
                              ELSE SqrtBetween(n, lo, mid)
ISqrt(n) == SqrtBetween(n, 0, 32768)

\* Vectors are indexed from 0 in the program; position j of the program is
\* element j + 1 of the sequence.
At(v, j) == v[j + 1]
Put(v, j, e) == [v EXCEPT ![j + 1] = e]
Fill(n, e) == [k \in 1..n |-> e]

\* ------------------------------------------------------------------------
\* Spectral transform (chiller_fft, chiller_ifft) and window
\* ------------------------------------------------------------------------

\* wlen = (cos(2 pi / len), sin(2 pi / len)): exact for the stage lengths of
\* transforms of size up to 4.
wlen(len) == CASE len = 1 -> <<1, 0>>
               [] len = 2 -> <<-1, 0>>
               [] len = 4 -> <<0, 1>>

\* for (; j & bit; bit >>= 1) j ^= bit;  j ^= bit;
RECURSIVE RevNext(_, _)
RevNext(j, bit) ==
    IF bit > 0 /\ (j \div bit) % 2 = 1 THEN RevNext(j - bit, bit \div 2)
    ELSE j + bit

\* Bit-reverse reordering loop, from index i with running j.
RECURSIVE BitReverse(_, _, _)
BitReverse(data, i, j) ==
    IF i >= Len(data) THEN data
    ELSE LET j2 == RevNext(j, Len(data) \div 2)
         IN BitReverse(IF i < j2 THEN Put(Put(data, i, At(data, j2)), j2, At(data, i))
                                 ELSE data,
                       i + 1, j2)

\* Inner loop over j of one block of one stage.
RECURSIVE Butterflies(_, _, _, _, _)
Butterflies(data, len, i, j, w) ==
    IF j >= len \div 2 THEN data
    ELSE LET u == At(data, i + j)
             v == CMul(At(data, i + j + len \div 2), w)
         IN Butterflies(Put(Put(data, i + j, CAdd(u, v)),
                            i + j + len \div 2, CSub(u, v)),
                        len, i, j + 1, CMul(w, wlen(len)))

\* Loop over the blocks i = 0, len, 2 len, ... of one stage.
RECURSIVE Blocks(_, _, _)
Blocks(data, len, i) ==
    IF i >= Len(data) THEN data
    ELSE Blocks(Butterflies(data, len, i, 0, <<1, 0>>), len, i + len)

\* Loop over the stages len = 2, 4, ..., n.
RECURSIVE Stages(_, _)
Stages(data, len) ==
    IF len > Len(data) THEN data
    ELSE Stages(Blocks(data, len, 0), 2 * len)

chiller_fft(data) ==
    IF Len(data) <= 1 THEN data
    ELSE Stages(BitReverse(data, 1, 0), 2)

chiller_ifft(data) ==
    LET n == Len(data)
        conj == [k \in 1..n |-> CConj(data[k])]
        fwd == chiller_fft(conj)
    IN [k \in 1..n |-> CScale(CConj(fwd[k]), 1, n)]

\* 2 cos(2 pi k / m), for the m at which it is an integer.
TwoCos(k, m) ==
    CASE m = 1 -> 2
      [] m = 2 -> IF k % 2 = 0 THEN 2 ELSE -2
      [] m = 3 -> IF k % 3 = 0 THEN 2 ELSE -1
      [] m = 4 -> <<2, 0, -2, 0>>[(k % 4) + 1]
      [] m = 6 -> <<2, 1, -1, -2, -1, 1>>[(k % 6) + 1]

\* Hann window, in quarters: 4 * 0.5 * (1 - cos(2 pi i / (size - 1))).
chiller_generate_window(size) ==
    [k \in 1..size |-> 2 - TwoCos(k - 1, size - 1)]

\* buffer[i] *= window[i] for i below both sizes.
chiller_apply_window(buffer, window) ==
    [k \in 1..Len(buffer) |->
        IF k <= Len(window) THEN (buffer[k] * window[k]) \div 4 ELSE buffer[k]]

\* ------------------------------------------------------------------------
\* The external sample sources (buffer~ objects), by name
\* ------------------------------------------------------------------------

\* The buffer~ objects that exist, with what buffer_getframecount,
\* buffer_getchannelcount and buffer_locksamples give for them: "mono" has
\* one channel, "stereo" holds interleaved pairs.
Buffers ==
    [mono   |-> [frames |-> 6, channels |-> 1,
                 samples |-> <<0, 160, 480, -160, 480, 0>>],
     stereo |-> [frames |-> 5, channels |-> 2,
                 samples |-> <<40, -40, 120, 40, 280, 200, -40, -120, 0, 0>>]]

\* The source is external and mutable: what the provider answers is an
\* input of each capture.  "ok": the buffer~ is there as in Buffers;
\* "gone": buffer_ref_getobject finds no buffer~ under the name; "busy":
\* buffer_locksamples returns NULL; "short": the buffer~ has been resized
\* to fewer frames than the FFT size.
Answers == {"ok", "gone", "busy", "short"}

Observe(name, env, size) ==
    [found |-> env # "gone",
     lockable |-> env # "busy",
     frames |-> IF env = "short" THEN size - 1 ELSE Buffers[name].frames,
     channels |-> Buffers[name].channels,
     samples |-> Buffers[name].samples]

BufferNames == DOMAIN Buffers

\* ------------------------------------------------------------------------
\* Random number generation (x->rng, phase_dist, amp_dist)
\* ------------------------------------------------------------------------

\* The generator is a deterministic stream read through a cursor (x->rng),
\* here of period 4.  Each entry is one grain bin's pair of draws:
\* <<phase, amp>>, the phase draw in quarter turns (-2 is -pi, 2 is pi), the
\* amplitude draw in {-1, 0, 1} out of [-1, 1].
RngStream == << <<2, 1>>, <<-1, -1>>, <<0, 0>>, <<1, 1>> >>

RngAt(r) == RngStream[(r % Len(RngStream)) + 1]

\* ------------------------------------------------------------------------
\* Construction (chiller_new)
\* ------------------------------------------------------------------------

\* buffer_ref_new: the reference is bound to the name whether or not a
\* buffer~ of that name exists.  The field `post` is the last line the
\* object wrote to the console (object_post / object_error); `locked` is
\* the number of buffer_locksamples not yet matched by
\* buffer_unlocksamples.
chiller_set_buffer(x, s) ==
    [x EXCEPT !.buffer_ref = s, !.spectrum_captured = FALSE]

\* a & b for a, b >= 0.
RECURSIVE BitAnd(_, _)
BitAnd(a, b) ==
    IF a = 0 \/ b = 0 THEN 0
    ELSE (a % 2) * (b % 2) + 2 * BitAnd(a \div 2, b \div 2)

\* Lines 110-122 with the test for a power of two left out.
chiller_new_size_in_range(requested_size) ==
    LET valid == requested_size >= 512 /\ requested_size <= 8192
        size == IF valid THEN requested_size ELSE CHILLER_DEFAULT_FFT_SIZE
    IN [fft_size |-> size, hop_size |-> size \div 4, error |-> ~valid]

\* Lines 110-122 for an integer first argument: fft_size, hop_size and
\* whether object_error was called.
chiller_new_size(requested_size) ==
    LET valid == /\ requested_size >= 512
                 /\ requested_size <= 8192
                 /\ BitAnd(requested_size, requested_size - 1) = 0
        size == IF valid THEN requested_size ELSE CHILLER_DEFAULT_FFT_SIZE
    IN [fft_size |-> size, hop_size |-> size \div 4, error |-> ~valid]

chiller_new(size, name) ==
    LET x == [fft_size |-> size,
              hop_size |-> size \div 4,
              frozen_spectrum |-> Fill(size, <<0, 0>>),
              window |-> chiller_generate_window(size),
              overlap_buffer_l |-> Fill(size, 0),
              overlap_buffer_r |-> Fill(size, 0),
              fft_buffer |-> Fill(size, <<0, 0>>),
              analysis_buffer |-> Fill(size, 0),
              rng |-> 0,
              position |-> 5,
              overlap_amount |-> 40,
              grain_rate |-> 10,
              phase_randomness |-> 1,
              amplitude_variation |-> 1,
              spectrum_captured |-> FALSE,
              capturing_spectrum |-> FALSE,
              grain_counter |-> 0,
              hop_counter |-> 0,
              last_position_change_time |-> 0,
              buffer_ref |-> NULL,
              post |-> "",
              locked |-> 0]
    IN IF name = NULL THEN [x EXCEPT !.post = "initialized"]
       ELSE [chiller_set_buffer(x, name) EXCEPT !.post = "initialized"]

\* ------------------------------------------------------------------------
\* Spectrum capture (chiller_capture_spectrum)
\* ------------------------------------------------------------------------

\* Line 451 without the fft_size taken off the frame count.
start_frame_of_all(x, frames) == (x.position * frames) \div 10

\* (long)(x->position * (buffer_frames - x->fft_size))
start_frame(x, frames) == (x.position * (frames - x.fft_size)) \div 10

\* One frame of the source as copied to the analysis buffer: the sample
\* itself for one channel, else the mean of the interleaved pair.
SourceFrame(b, f) ==
    IF b.channels = 1 THEN At(b.samples, f)
    ELSE (At(b.samples, f * 2) + At(b.samples, f * 2 + 1)) \div 2

\* Lines 455-461: the indices of buffer_samples read for frame f.
SampleIndices(channels, f) ==
    IF channels = 1 THEN {f} ELSE {f * 2, f * 2 + 1}

\* Lines 451-462: the start frame and every index of buffer_samples the
\* copy loop reads from a source of `frames` frames and `channels` channels.
CaptureReads(x, frames, channels) ==
    LET start == start_frame(x, frames)
    IN [start |-> start,
        reads |-> UNION {SampleIndices(channels, start + i) : i \in 0..(x.fft_size - 1)}]

\* Lines 454-462: the analysis buffer after the copy loop.
CopySamples(x, b) ==
    [k \in 1..x.fft_size |-> SourceFrame(b, start_frame(x, b.frames) + (k - 1))]

\* Lines 468-470, one element: fft_buffer[i] = (analysis_buffer[i], 0).
CopyToFft(x, i) ==
    [x EXCEPT !.fft_buffer = Put(@, i, <<At(x.analysis_buffer, i), 0>>)]

\* Lines 476-480: sum of magnitude^2 over the workspace.
RECURSIVE EnergyFrom(_, _)
EnergyFrom(v, i) == IF i >= Len(v) THEN 0 ELSE CNorm2(At(v, i)) + EnergyFrom(v, i + 1)
spectrum_energy(v) == EnergyFrom(v, 0)

\* target_energy = fft_size * 0.1, in squared signal units (1200^2 / 10).
target_energy(x) == x.fft_size * 144000

\* normalization_factor = sqrt(target_energy / spectrum_energy), in tenths;
\* 10 (that is 1.0: no rescaling) when the energy is not above 1e-10.
normalization_factor(x, energy) ==
    IF energy > 0 THEN ISqrt((target_energy(x) * 100) \div energy) ELSE 10

\* Lines 489-491, one element.
NormalizeAt(x, i, factor) ==
    [x EXCEPT !.fft_buffer = Put(@, i, CScale(At(x.fft_buffer, i), factor, 10))]

\* Line 495, one element of the vector assignment.
StoreAt(x, i) ==
    [x EXCEPT !.frozen_spectrum = Put(@, i, At(x.fft_buffer, i))]

\* Line 499 left out: the right accumulator keeps what it held.
ClearRAt_kept(x, i) == x

\* Lines 498 and 499, one element of each std::fill.
ClearLAt(x, i) == [x EXCEPT !.overlap_buffer_l = Put(@, i, 0)]
ClearRAt(x, i) == [x EXCEPT !.overlap_buffer_r = Put(@, i, 0)]

\* A loop `for (i = from; i < size; i++) x = Body(x, i)` over the whole
\* vector, for each of the element steps above.
RECURSIVE CopyToFftLoop(_, _)
CopyToFftLoop(x, i) ==
    IF i >= x.fft_size THEN x ELSE CopyToFftLoop(CopyToFft(x, i), i + 1)

RECURSIVE NormalizeLoop(_, _, _)
NormalizeLoop(x, i, factor) ==
    IF i >= x.fft_size THEN x ELSE NormalizeLoop(NormalizeAt(x, i, factor), i + 1, factor)

RECURSIVE StoreLoop(_, _)
StoreLoop(x, i) == IF i >= x.fft_size THEN x ELSE StoreLoop(StoreAt(x, i), i + 1)

RECURSIVE ClearLLoop(_, _)
ClearLLoop(x, i) == IF i >= x.fft_size THEN x ELSE ClearLLoop(ClearLAt(x, i), i + 1)

RECURSIVE ClearRLoop(_, _)
ClearRLoop(x, i) == IF i >= x.fft_size THEN x ELSE ClearRLoop(ClearRAt(x, i), i + 1)

\* Lines 450-465: copy the segment and window it.
Analyse(x, b) ==
    [x EXCEPT !.analysis_buffer = chiller_apply_window(CopySamples(x, b), x.window)]

\* Lines 467-492: workspace := normalised transform of the analysis buffer.
Transform(x) ==
    LET t == [CopyToFftLoop(x, 0) EXCEPT !.fft_buffer = chiller_fft(@)]
        e == spectrum_energy(t.fft_buffer)
    IN IF e > 0 THEN NormalizeLoop(t, 0, normalization_factor(t, e)) ELSE t

\* Publish without line 502: the hop counter is left as it was.
Publish_hop_kept(x) == ClearRLoop(ClearLLoop(StoreLoop(x, 0), 0), 0)

\* Publish with the second std::fill applied to the left accumulator again.
Publish_left_twice(x) ==
    [ClearLLoop(ClearLLoop(StoreLoop(x, 0), 0), 0) EXCEPT !.hop_counter = 0]

\* Lines 494-502: publish the spectrum and restart the overlap-add.
Publish(x) ==
    [ClearRLoop(ClearLLoop(StoreLoop(x, 0), 0), 0) EXCEPT !.hop_counter = 0]

\* chiller_capture_spectrum with `captured` cleared when the capture starts.
chiller_capture_spectrum_invalidating(x, env) ==
    IF x.buffer_ref = NULL THEN [x EXCEPT !.post = "No buffer set"]
    ELSE LET b == Observe(x.buffer_ref, env, x.fft_size)
             c == [x EXCEPT !.capturing_spectrum = TRUE, !.spectrum_captured = FALSE]
         IN IF ~b.found
            THEN [c EXCEPT !.post = "Buffer not found",
                           !.capturing_spectrum = FALSE]
            ELSE IF ~b.lockable
            THEN [c EXCEPT !.post = "Could not access buffer data",
                           !.capturing_spectrum = FALSE]
            ELSE IF b.frames < x.fft_size
            THEN [c EXCEPT !.post = "Buffer too small",
                           !.capturing_spectrum = FALSE]
            ELSE LET a == Analyse([c EXCEPT !.locked = @ + 1], b)
                 IN [Publish(Transform(a)) EXCEPT !.spectrum_captured = TRUE,
                                                  !.capturing_spectrum = FALSE,
                                                  !.locked = @ - 1,
                                                  !.post = "Spectrum captured"]

\* chiller_capture_spectrum with the exit for too few frames not resetting
\* the capturing flag.
chiller_capture_spectrum_flag_left(x, env) ==
    IF x.buffer_ref = NULL THEN [x EXCEPT !.post = "No buffer set"]
    ELSE LET b == Observe(x.buffer_ref, env, x.fft_size)
             c == [x EXCEPT !.capturing_spectrum = TRUE]
         IN IF ~b.found
            THEN [c EXCEPT !.post = "Buffer not found",
                           !.capturing_spectrum = FALSE]
            ELSE IF ~b.lockable
            THEN [c EXCEPT !.post = "Could not access buffer data",
                           !.capturing_spectrum = FALSE]
            ELSE IF b.frames < x.fft_size
            THEN [c EXCEPT !.post = "Buffer too small"]
            ELSE LET a == Analyse([c EXCEPT !.locked = @ + 1], b)
                 IN [Publish(Transform(a)) EXCEPT !.spectrum_captured = TRUE,
                                                  !.capturing_spectrum = FALSE,
                                                  !.locked = @ - 1,
                                                  !.post = "Spectrum captured"]

\* Line 437 (buffer_locksamples answered with the samples) and lines 444
\* and 508 (buffer_unlocksamples).
LockSamples(x) == [x EXCEPT !.locked = @ + 1]
UnlockSamples(x) == [x EXCEPT !.locked = @ - 1]

\* CaptureEntry with the exit for too few frames returning without line 444.
CaptureEntry_short_locked(x, env) ==
    IF x.buffer_ref = NULL
    THEN [x |-> [x EXCEPT !.post = "No buffer set"], go |-> FALSE]
    ELSE LET b == Observe(x.buffer_ref, env, x.fft_size)
             c == [x EXCEPT !.capturing_spectrum = TRUE]
         IN IF ~b.found
            THEN [x |-> [c EXCEPT !.post = "Buffer not found",
                                  !.capturing_spectrum = FALSE],
                  go |-> FALSE]
            ELSE IF ~b.lockable
            THEN [x |-> [c EXCEPT !.post = "Could not access buffer data",
                                  !.capturing_spectrum = FALSE],
                  go |-> FALSE]
            ELSE IF b.frames < x.fft_size
            THEN [x |-> [LockSamples(c) EXCEPT !.post = "Buffer too small",
                                               !.capturing_spectrum = FALSE],
                  go |-> FALSE]
            ELSE [x |-> Analyse(LockSamples(c), b), go |-> TRUE]

\* Lines 418-465: the capture up to the windowed analysis buffer.  `env`
\* is what the provider answers this time.  Yields the object and whether
\* the capture goes on (go) or has returned.
CaptureEntry(x, env) ==
    IF x.buffer_ref = NULL
    THEN [x |-> [x EXCEPT !.post = "No buffer set"], go |-> FALSE]
    ELSE LET b == Observe(x.buffer_ref, env, x.fft_size)
             c == [x EXCEPT !.capturing_spectrum = TRUE]
         IN IF ~b.found
            THEN [x |-> [c EXCEPT !.post = "Buffer not found",
                                  !.capturing_spectrum = FALSE],
                  go |-> FALSE]
            ELSE IF ~b.lockable
            THEN [x |-> [c EXCEPT !.post = "Could not access buffer data",
                                  !.capturing_spectrum = FALSE],
                  go |-> FALSE]
            ELSE IF b.frames < x.fft_size
            THEN [x |-> [UnlockSamples(LockSamples(c))
                            EXCEPT !.post = "Buffer too small",
                                   !.capturing_spectrum = FALSE],
                  go |-> FALSE]
            ELSE [x |-> Analyse(LockSamples(c), b), go |-> TRUE]

\* Lines 504-510: the flags, the unlock and the report.
CaptureFinish(x) ==
    [UnlockSamples(x) EXCEPT !.spectrum_captured = TRUE,
                             !.capturing_spectrum = FALSE,
                             !.post = "Spectrum captured"]

\* The whole capture, run without interruption.
chiller_capture_spectrum(x, env) ==
    LET e == CaptureEntry(x, env)
    IN IF e.go THEN CaptureFinish(Publish(Transform(e.x))) ELSE e.x

\* ------------------------------------------------------------------------
\* Audio (chiller_perform64)
\* ------------------------------------------------------------------------

\* a * i^q.
Rotate(a, q) ==
    CASE q % 4 = 0 -> a
      [] q % 4 = 1 -> <<0 - a[2], a[1]>>
      [] q % 4 = 2 -> <<0 - a[1], 0 - a[2]>>
      [] q % 4 = 3 -> <<a[2], 0 - a[1]>>

\* phase * phase_randomness in whole quarter turns, rounded towards zero.
QuarterTurns(phase, phase_randomness) ==
    IF phase >= 0 THEN (phase * phase_randomness) \div 10
    ELSE 0 - (((0 - phase) * phase_randomness) \div 10)

\* Lines 217-226 for one bin: polar(|a| * (1 + amp * amplitude_variation),
\* arg(a) + phase * phase_randomness).
PerturbBin(a, draw, phase_randomness, amplitude_variation) ==
    CScale(Rotate(a, QuarterTurns(draw[1], phase_randomness)),
           10 + draw[2] * amplitude_variation, 10)

\* The test of line 212 with > for >=.
\* Line 212 with the hop taken from the overlap amount (fft_size / overlap)
\* in place of hop_size / grain_rate.
HopReached_by_overlap(x) == x.hop_counter * x.overlap_amount >= x.fft_size * 10

HopReached_strict(x) == x.hop_counter * x.grain_rate > x.hop_size * 10

\* hop_counter >= hop_size / grain_rate  (grain_rate in tenths, > 0).
HopReached(x) == x.hop_counter * x.grain_rate >= x.hop_size * 10

\* Lines 216-227, one bin: perturb frozen_spectrum[j] into fft_buffer[j].
GrainBinAt(x, j) ==
    [x EXCEPT !.fft_buffer = Put(@, j, PerturbBin(At(x.frozen_spectrum, j), RngAt(x.rng),
                                                  x.phase_randomness,
                                                  x.amplitude_variation)),
              !.rng = (x.rng + 1) % Len(RngStream)]

\* Lines 233-239 with = for += : the grain replaces what the accumulators
\* held.
OverlapAddAt_assign(x, j) ==
    LET sample == At(x.fft_buffer, j)[1] * At(x.window, j)
    IN [x EXCEPT !.overlap_buffer_l = Put(@, j, sample * 8),
                 !.overlap_buffer_r = Put(@, j, sample * 10)]

\* Lines 233-239, one position: window the grain and add it to both
\* accumulators (left * 0.8, right * 1.0).
OverlapAddAt(x, j) ==
    LET sample == At(x.fft_buffer, j)[1] * At(x.window, j)
    IN [x EXCEPT !.overlap_buffer_l = Put(@, j, At(@, j) + sample * 8),
                 !.overlap_buffer_r = Put(@, j, At(@, j) + sample * 10)]

\* The shift loop copying from two positions ahead.
ShiftAt_two_ahead(x, j) ==
    [x EXCEPT !.overlap_buffer_l = Put(@, j, At(@, IF j + 2 < Len(@) THEN j + 2 ELSE j + 1)),
              !.overlap_buffer_r = Put(@, j, At(@, IF j + 2 < Len(@) THEN j + 2 ELSE j + 1))]

\* Lines 247-250, one position of the shift loop.
ShiftAt(x, j) ==
    [x EXCEPT !.overlap_buffer_l = Put(@, j, At(@, j + 1)),
              !.overlap_buffer_r = Put(@, j, At(@, j + 1))]

\* Lines 251-252.
ShiftEnd(x) ==
    [x EXCEPT !.overlap_buffer_l = Put(@, Len(@) - 1, 0),
              !.overlap_buffer_r = Put(@, Len(@) - 1, 0)]

RECURSIVE GrainBinLoop(_, _)
GrainBinLoop(x, j) ==
    IF j >= Len(x.frozen_spectrum) THEN x ELSE GrainBinLoop(GrainBinAt(x, j), j + 1)

RECURSIVE OverlapAddLoop(_, _)
OverlapAddLoop(x, j) ==
    IF j >= Len(x.fft_buffer) THEN x ELSE OverlapAddLoop(OverlapAddAt(x, j), j + 1)

RECURSIVE ShiftLoop(_, _)
ShiftLoop(x, j) ==
    IF j >= Len(x.overlap_buffer_l) - 1 THEN x ELSE ShiftLoop(ShiftAt(x, j), j + 1)

\* Lines 213-239: one grain.
Grain(x) ==
    LET p == GrainBinLoop([x EXCEPT !.hop_counter = 0], 0)
    IN OverlapAddLoop([p EXCEPT !.fft_buffer = chiller_ifft(@)], 0)

\* Line 234 for every j: the grain in the workspace times the window.
Windowed(x) ==
    [k \in 1..Len(x.fft_buffer) |-> x.fft_buffer[k][1] * x.window[k]]

\* Lines 209-252: one pass of the sample loop.  Yields the object, the
\* two samples written to out_l[i] and out_r[i], whether a grain was
\* synthesized (grain) and what it added to the accumulators (added).
SampleStep(x) ==
    LET c == [x EXCEPT !.hop_counter = @ + 1]
        g == IF HopReached(c) THEN Grain(c) ELSE c
    IN [x |-> ShiftEnd(ShiftLoop(g, 0)),
        l |-> At(g.overlap_buffer_l, 0),
        r |-> At(g.overlap_buffer_r, 0),
        grain |-> HopReached(c),
        added |-> IF HopReached(c) THEN Windowed(g)
                  ELSE Fill(Len(x.fft_buffer), 0)]

\* The sample loop from a state r = [x, out_l, out_r], n more samples.
RECURSIVE SampleLoop(_, _)
SampleLoop(r, n) ==
    IF n = 0 THEN r
    ELSE LET s == SampleStep(r.x)
         IN SampleLoop([x |-> s.x,
                        out_l |-> Append(r.out_l, s.l),
                        out_r |-> Append(r.out_r, s.r)], n - 1)

\* Line 212 over the sample loop: for each of n samples from x, whether
\* a grain was synthesized at it.
RECURSIVE GrainFlags(_, _)
GrainFlags(x, n) ==
    IF n = 0 THEN <<>>
    ELSE LET s == SampleStep(x)
         IN <<s.grain>> \o GrainFlags(s.x, n - 1)

\* Line 199.
Silent(x) == ~x.spectrum_captured \/ x.buffer_ref = NULL

\* chiller_perform64 without the test of line 199.
chiller_perform64_unguarded(x, sampleframes) ==
    SampleLoop([x |-> x, out_l |-> <<>>, out_r |-> <<>>], sampleframes)

\* One audio block of `sampleframes` samples, run without interruption.
chiller_perform64(x, sampleframes) ==
    IF Silent(x)
    THEN [x |-> x, out_l |-> Fill(sampleframes, 0), out_r |-> Fill(sampleframes, 0)]
    ELSE SampleLoop([x |-> x, out_l |-> <<>>, out_r |-> <<>>], sampleframes)

\* ------------------------------------------------------------------------
\* Message handlers
\* ------------------------------------------------------------------------

\* chiller_set_position with the position stored before the debounce test.
chiller_set_position_store_first(x, pos, current_time, env) ==
    LET q == [x EXCEPT !.position = CLAMP(pos, 0, 10)]
    IN IF current_time - x.last_position_change_time < min_interval THEN q
       ELSE LET p == [q EXCEPT !.last_position_change_time = current_time]
            IN IF ~p.capturing_spectrum
               THEN chiller_capture_spectrum([p EXCEPT !.spectrum_captured = FALSE], env)
               ELSE p

\* chiller_set_position without line 293.
chiller_set_position_keep_captured(x, pos, current_time, env) ==
    IF current_time - x.last_position_change_time < min_interval THEN x
    ELSE LET p == [x EXCEPT !.position = CLAMP(pos, 0, 10),
                            !.last_position_change_time = current_time]
         IN IF ~p.capturing_spectrum
            THEN chiller_capture_spectrum(p, env)
            ELSE p

\* Lines 277-296.  current_time is systimer_gettime().
chiller_set_position(x, pos, current_time, env) ==
    IF current_time - x.last_position_change_time < min_interval THEN x
    ELSE LET p == [x EXCEPT !.position = CLAMP(pos, 0, 10),
                            !.last_position_change_time = current_time]
         IN IF ~p.capturing_spectrum
            THEN chiller_capture_spectrum([p EXCEPT !.spectrum_captured = FALSE], env)
            ELSE p

\* chiller_set_overlap storing its argument as it comes.
chiller_set_overlap_unclamped(x, overlap) == [x EXCEPT !.overlap_amount = overlap]

chiller_set_overlap(x, overlap) == [x EXCEPT !.overlap_amount = CLAMP(overlap, 10, 80)]

chiller_set_rate(x, rate) == [x EXCEPT !.grain_rate = CLAMP(rate, 1, 40)]

chiller_set_phase_rand(x, rand_amount) ==
    [x EXCEPT !.phase_randomness = CLAMP(rand_amount, 0, 10)]

chiller_set_amp_var(x, var_amount) ==
    [x EXCEPT !.amplitude_variation = CLAMP(var_amount, 0, 5)]

chiller_freeze(x, env) == chiller_capture_spectrum(x, env)

\* Only the last line of the dump is kept in `post`.
chiller_debug(x) == [x EXCEPT !.post = "=== END DEBUG INFO ==="]

\* chiller_notify with line 413 left out.
chiller_notify_ignored(x, msg) == x

chiller_notify(x, msg) ==
    IF msg = "globalsymbol_binding" THEN [x EXCEPT !.spectrum_captured = FALSE] ELSE x

\* ------------------------------------------------------------------------
\* State
\* ------------------------------------------------------------------------

\* x      the t_chiller object (plus `post` and `locked`, see chiller_new)
\* now    the reading of systimer_gettime(), in ms
\* out_l, out_r   the two signal vectors the host handed to the handler
\*        that ran last, as it left them: empty unless that handler was the
\*        audio callback
\* call   the last handler run and how it ended
\* ctl    the control thread: where it stands in a capture (pc, loop index
\*        i, the message op that started it) and the number of captures
\*        started so far (serial)
\* aud    the audio thread: where it stands in a block (pc, sample index
\*        i, inner index j, block size n), the tags and the values of the
\*        bins read for the grain under construction (tags, read), the
\*        bins it wrote to the workspace (wrote), and the number of blocks
\*        started
\* tag    for each position of frozen_spectrum, the serial of the capture
\*        that wrote it (0: construction)
\* arg    the argument of the last setter message, or the arguments a
\*        function of the program is about to be applied to
\* res    what that function gave
\* run    the audio since the last successful capture: the samples
\*        processed (since), whether a command came in between (steady),
\*        the samples processed since the last grain at an unchanged rate
\*        (gap, -1 if none), the distance between the last two grains at
\*        an unchanged rate (period, -1 if none), the grains of the last fft_size
\*        sample steps, latest first (hist), and the same grains added
\*        into a ring buffer read at a moving pointer (ring, ptr)
VARIABLES x, now, out_l, out_r, call, ctl, aud, tag, arg, res, run

vars == <<x, now, out_l, out_r, call, ctl, aud, tag, arg, res, run>>

RunStart ==
    [since |-> 0, steady |-> FALSE, gap |-> -1, period |-> -1, hist |-> <<>>,
     ring |-> Fill(FftSize, 0), ptr |-> 0]

CtlIdle == [pc |-> "idle", i |-> 0, op |-> "", serial |-> 0]
AudIdle ==
    [pc |-> "idle", i |-> 0, j |-> 0, n |-> 0, tags |-> {}, read |-> <<>>,
     wrote |-> <<>>, blocks |-> 0]

\* Arguments the messages are sent with.
PositionArgs == {-5, 5, 15}
OverlapArgs == {-50, 1000}
RateArgs == {5}
PhaseRandArgs == {10}
AmpVarArgs == {5}
NotifyMsgs == {"globalsymbol_binding", "buffer_modified"}
TickSteps == {250, 500}
InitClocks == {0, 500}
BlockSizes == 1..MaxBlock

\* The record kept of a call: the handler and how it ended.
Called(op, ret) == [op |-> op, ret |-> ret]

InitObject ==
    /\ \E name \in {NULL, "mono"} : x = chiller_new(FftSize, name)
    /\ now \in InitClocks
    /\ out_l = <<>>
    /\ out_r = <<>>
    /\ call = Called("new", "")
    /\ ctl = CtlIdle
    /\ aud = AudIdle
    /\ tag = Fill(FftSize, 0)
    /\ run = RunStart

Init ==
    /\ InitObject
    /\ arg = <<>>
    /\ res = <<>>

\* ------------------------------------------------------------------------
\* Operations, each run to completion
\* ------------------------------------------------------------------------

\* The clock advances.
Tick(d) ==
    /\ now + d <= MaxClock
    /\ now' = now + d
    /\ call' = Called("tick", "")
    /\ out_l' = <<>> /\ out_r' = <<>>
    /\ UNCHANGED <<x, ctl, aud, tag, arg, res, run>>

\* "set <name>"
SetBuffer(s) ==
    /\ x' = chiller_set_buffer(x, s)
    /\ call' = Called("set", s)
    /\ out_l' = <<>> /\ out_r' = <<>>
    /\ UNCHANGED <<now, ctl, aud, tag, arg, res, run>>

\* How a "position" message ended: dropped by the debounce, accepted with
\* a capture already running, or the capture's own report.
PositionOutcome(pre, post) ==
    IF now - pre.last_position_change_time < min_interval THEN "dropped"
    ELSE IF pre.capturing_spectrum THEN "busy"
    ELSE post.post

\* "position <pos>"
SetPosition(pos, env) ==
    /\ x' = chiller_set_position(x, pos, now, env)
    /\ call' = Called("position", PositionOutcome(x, x'))
    /\ out_l' = <<>> /\ out_r' = <<>>
    /\ UNCHANGED <<now, ctl, aud, tag, arg, res, run>>

\* "freeze" put behind the debounce of the position changes.
Freeze_debounced(env) ==
    /\ x' = IF now - x.last_position_change_time < min_interval THEN x
            ELSE chiller_freeze(x, env)
    /\ call' = Called("freeze", x'.post)
    /\ out_l' = <<>> /\ out_r' = <<>>
    /\ UNCHANGED <<now, ctl, aud, tag, arg, res, run>>

\* "freeze"
Freeze(env) ==
    /\ x' = chiller_freeze(x, env)
    /\ call' = Called("freeze", x'.post)
    /\ out_l' = <<>> /\ out_r' = <<>>
    /\ UNCHANGED <<now, ctl, aud, tag, arg, res, run>>

\* notify from the buffer reference
Notify(msg) ==
    /\ x' = chiller_notify(x, msg)
    /\ call' = Called("notify", msg)
    /\ out_l' = <<>> /\ out_r' = <<>>
    /\ UNCHANGED <<now, ctl, aud, tag, arg, res, run>>

\* One audio block.
Perform(sampleframes) ==
    /\ LET r == chiller_perform64(x, sampleframes)
       IN /\ x' = r.x
          /\ out_l' = r.out_l
          /\ out_r' = r.out_r
    /\ call' = Called("perform", IF Silent(x) THEN "silent" ELSE "sound")
    /\ UNCHANGED <<now, ctl, aud, tag, arg, res, run>>

SetOverlap(a) ==
    /\ x' = chiller_set_overlap(x, a)
    /\ call' = Called("overlap", "")
    /\ arg' = a
    /\ out_l' = <<>> /\ out_r' = <<>>
    /\ UNCHANGED <<now, ctl, aud, tag, res, run>>

SetRate(a) ==
    /\ x' = chiller_set_rate(x, a)
    /\ call' = Called("rate", "")
    /\ arg' = a
    /\ out_l' = <<>> /\ out_r' = <<>>
    /\ UNCHANGED <<now, ctl, aud, tag, res, run>>

SetPhaseRand(a) ==
    /\ x' = chiller_set_phase_rand(x, a)
    /\ call' = Called("phaserand", "")
    /\ arg' = a
    /\ out_l' = <<>> /\ out_r' = <<>>
    /\ UNCHANGED <<now, ctl, aud, tag, res, run>>

SetAmpVar(a) ==
    /\ x' = chiller_set_amp_var(x, a)
    /\ call' = Called("ampvar", "")
    /\ arg' = a
    /\ out_l' = <<>> /\ out_r' = <<>>
    /\ UNCHANGED <<now, ctl, aud, tag, res, run>>

Debug ==
    /\ x' = chiller_debug(x)
    /\ call' = Called("bang", "")
    /\ out_l' = <<>> /\ out_r' = <<>>
    /\ UNCHANGED <<now, ctl, aud, tag, arg, res, run>>

Next ==
    \/ \E d \in TickSteps : Tick(d)
    \/ \E s \in BufferNames : SetBuffer(s)
    \/ \E pos \in PositionArgs, env \in Answers : SetPosition(pos, env)
    \/ \E env \in Answers : Freeze(env)
    \/ \E msg \in NotifyMsgs : Notify(msg)
    \/ \E n \in BlockSizes : Perform(n)
    \/ \E a \in RateArgs : SetRate(a)

Spec == Init /\ [][Next]_vars

\* ------------------------------------------------------------------------
\* The parameter messages with arbitrary arguments
\* ------------------------------------------------------------------------

\* Arguments below every parameter's range, above every range, and inside
\* them: 5 for all but the overlap, 25 for the overlap and the rate (tenths).
SetterArgs == {-50, 5, 25, 1000}

\* "position <pos>", the argument kept.
Position(pos, env) ==
    /\ x' = chiller_set_position(x, pos, now, env)
    /\ call' = Called("position", PositionOutcome(x, x'))
    /\ arg' = pos
    /\ out_l' = <<>> /\ out_r' = <<>>
    /\ UNCHANGED <<now, ctl, aud, tag, res, run>>

NextSet ==
    \/ \E d \in {min_interval} : Tick(d)
    \/ \E a \in SetterArgs : Position(a, "ok")
    \/ \E a \in SetterArgs : SetOverlap(a)
    \/ \E a \in SetterArgs : SetRate(a)
    \/ \E a \in SetterArgs : SetPhaseRand(a)
    \/ \E a \in SetterArgs : SetAmpVar(a)

SpecSet == Init /\ [][NextSet]_vars

\* ------------------------------------------------------------------------
\* The two threads, statement by statement
\* ------------------------------------------------------------------------
\* The message handlers run on the control thread and chiller_perform64 on
\* the audio thread.  The object holds no lock, so a step of one thread may
\* fall between any two steps of the other.  A step below is one statement
\* or one loop.  The two loops over frozen_spectrum, the copy of line 495
\* and the grain's read of lines 216-227, go one element a step; so every
\* run of these steps is a run of the program, and the program has more.

\* A capture entered by message `op` on object y.
StartCapture(y, env, op) ==
    LET e == CaptureEntry(y, env)
    IN /\ x' = e.x
       /\ ctl' = IF e.go
                 THEN [pc |-> "transform", i |-> 0, op |-> op,
                       serial |-> ctl.serial + 1]
                 ELSE ctl
       /\ call' = Called(op, "")

\* "freeze" arrives.
CFreeze(env) ==
    /\ ctl.pc = "idle"
    /\ ctl.serial < MaxCaptures
    /\ StartCapture(x, env, "freeze")
    /\ UNCHANGED <<now, out_l, out_r, aud, tag, arg, res, run>>

\* "position <pos>" arrives: lines 277-294.
CPosition(pos, env) ==
    /\ ctl.pc = "idle"
    /\ ctl.serial < MaxCaptures
    /\ IF now - x.last_position_change_time < min_interval
       THEN /\ call' = Called("position", "")
            /\ UNCHANGED <<x, ctl>>
       ELSE LET p == [x EXCEPT !.position = CLAMP(pos, 0, 10),
                               !.last_position_change_time = now]
            IN IF p.capturing_spectrum
               THEN /\ x' = p
                    /\ call' = Called("position", "")
                    /\ UNCHANGED ctl
               ELSE StartCapture([p EXCEPT !.spectrum_captured = FALSE],
                                 env, "position")
    /\ UNCHANGED <<now, out_l, out_r, aud, tag, arg, res, run>>

\* Lines 467-492.
CTransform ==
    /\ ctl.pc = "transform"
    /\ x' = Transform(x)
    /\ ctl' = [ctl EXCEPT !.pc = "store", !.i = 0]
    /\ UNCHANGED <<now, out_l, out_r, call, aud, tag, arg, res, run>>

\* Line 495, one element.
CStore ==
    /\ ctl.pc = "store"
    /\ x' = StoreAt(x, ctl.i)
    /\ tag' = Put(tag, ctl.i, ctl.serial)
    /\ ctl' = IF ctl.i + 1 >= Len(x.fft_buffer)
              THEN [ctl EXCEPT !.pc = "clearl", !.i = 0]
              ELSE [ctl EXCEPT !.i = @ + 1]
    /\ UNCHANGED <<now, out_l, out_r, call, aud, arg, res, run>>

\* Line 498.
CClearL ==
    /\ ctl.pc = "clearl"
    /\ x' = ClearLLoop(x, 0)
    /\ ctl' = [ctl EXCEPT !.pc = "clearr"]
    /\ UNCHANGED <<now, out_l, out_r, call, aud, tag, arg, res, run>>

\* Line 499.
CClearR ==
    /\ ctl.pc = "clearr"
    /\ x' = ClearRLoop(x, 0)
    /\ ctl' = [ctl EXCEPT !.pc = "hop"]
    /\ UNCHANGED <<now, out_l, out_r, call, aud, tag, arg, res, run>>

\* Line 502.
CHop ==
    /\ ctl.pc = "hop"
    /\ x' = [x EXCEPT !.hop_counter = 0]
    /\ ctl' = [ctl EXCEPT !.pc = "finish"]
    /\ UNCHANGED <<now, out_l, out_r, call, aud, tag, arg, res, run>>

\* Lines 504-510.
CFinish ==
    /\ ctl.pc = "finish"
    /\ x' = CaptureFinish(x)
    /\ ctl' = [ctl EXCEPT !.pc = "idle", !.op = ""]
    /\ UNCHANGED <<now, out_l, out_r, call, aud, tag, arg, res, run>>

\* notify from the buffer reference.
CNotify(msg) ==
    /\ ctl.pc = "idle"
    /\ x' = chiller_notify(x, msg)
    /\ call' = Called("notify", "")
    /\ UNCHANGED <<now, out_l, out_r, ctl, aud, tag, arg, res, run>>

\* "set <name>" arrives.
CSetBuffer(s) ==
    /\ ctl.pc = "idle"
    /\ x' = chiller_set_buffer(x, s)
    /\ call' = Called("set", "")
    /\ UNCHANGED <<now, out_l, out_r, ctl, aud, tag, arg, res, run>>

\* The clock advances.
CTick(d) ==
    /\ now + d <= MaxClock
    /\ now' = now + d
    /\ UNCHANGED <<x, out_l, out_r, call, ctl, aud, tag, arg, res, run>>

\* chiller_perform64 is called with a block of `sampleframes`: lines
\* 196-207.  A silent block is written at once.
AStart(sampleframes) ==
    /\ aud.pc = "idle"
    /\ aud.blocks < MaxRuns
    /\ IF Silent(x)
       THEN /\ out_l' = Fill(sampleframes, 0)
            /\ out_r' = Fill(sampleframes, 0)
            /\ aud' = [aud EXCEPT !.blocks = @ + 1]
       ELSE /\ out_l' = <<>>
            /\ out_r' = <<>>
            /\ aud' = [aud EXCEPT !.pc = "hop", !.i = 0, !.j = 0,
                                  !.n = sampleframes, !.tags = {},
                                  !.read = <<>>, !.wrote = <<>>,
                                  !.blocks = @ + 1]
    /\ UNCHANGED <<x, now, call, ctl, tag, arg, res, run>>

\* Lines 209-213: count the sample and decide on a grain.
AHop ==
    /\ aud.pc = "hop"
    /\ LET c == [x EXCEPT !.hop_counter = @ + 1]
       IN IF HopReached(c)
          THEN /\ x' = [c EXCEPT !.hop_counter = 0]
               /\ aud' = [aud EXCEPT !.pc = "bin", !.j = 0, !.tags = {},
                                     !.read = <<>>, !.wrote = <<>>]
          ELSE /\ x' = c
               /\ aud' = [aud EXCEPT !.pc = "emit"]
    /\ UNCHANGED <<now, out_l, out_r, call, ctl, tag, arg, res, run>>

\* Lines 216-227, one bin.
ABin ==
    /\ aud.pc = "bin"
    /\ x' = GrainBinAt(x, aud.j)
    /\ aud' = IF aud.j + 1 >= Len(x.frozen_spectrum)
              THEN [aud EXCEPT !.pc = "ifft", !.j = 0,
                               !.tags = @ \cup {At(tag, aud.j)},
                               !.read = Append(@, At(x.frozen_spectrum, aud.j)),
                               !.wrote = Append(@, At(x'.fft_buffer, aud.j))]
              ELSE [aud EXCEPT !.j = @ + 1,
                               !.tags = @ \cup {At(tag, aud.j)},
                               !.read = Append(@, At(x.frozen_spectrum, aud.j)),
                               !.wrote = Append(@, At(x'.fft_buffer, aud.j))]
    /\ UNCHANGED <<now, out_l, out_r, call, ctl, tag, arg, res, run>>

\* Line 230.
AIfft ==
    /\ aud.pc = "ifft"
    /\ x' = [x EXCEPT !.fft_buffer = chiller_ifft(@)]
    /\ aud' = [aud EXCEPT !.pc = "add", !.j = 0]
    /\ UNCHANGED <<now, out_l, out_r, call, ctl, tag, arg, res, run>>

\* Lines 233-239.
AAdd ==
    /\ aud.pc = "add"
    /\ x' = OverlapAddLoop(x, 0)
    /\ aud' = [aud EXCEPT !.pc = "emit"]
    /\ UNCHANGED <<now, out_l, out_r, call, ctl, tag, arg, res, run>>

\* Lines 243-244.
AEmit ==
    /\ aud.pc = "emit"
    /\ out_l' = Append(out_l, At(x.overlap_buffer_l, 0))
    /\ out_r' = Append(out_r, At(x.overlap_buffer_r, 0))
    /\ aud' = [aud EXCEPT !.pc = "shift", !.j = 0]
    /\ UNCHANGED <<x, now, call, ctl, tag, arg, res, run>>

\* Lines 247-253: shift the accumulators and go to the next sample, or
\* return.
AShift ==
    /\ aud.pc = "shift"
    /\ x' = ShiftEnd(ShiftLoop(x, 0))
    /\ aud' = IF aud.i + 1 >= aud.n
              THEN [aud EXCEPT !.pc = "idle", !.i = 0, !.n = 0, !.tags = {},
                               !.read = <<>>, !.wrote = <<>>]
              ELSE [aud EXCEPT !.pc = "hop", !.i = @ + 1]
    /\ UNCHANGED <<now, out_l, out_r, call, ctl, tag, arg, res, run>>

\* The object is made with a source and the first message is late enough
\* to pass the debounce.
InitConc ==
    /\ Init
    /\ x.buffer_ref # NULL
    /\ now = min_interval

\* The messages and answers tried with the threads interleaved.
ConcAnswers == {"ok", "gone"}
ConcPositions == {15}
ConcBuffers == {"mono"}
ConcNotify == {"globalsymbol_binding"}
ConcTicks == {500}
ConcBlocks == {MaxBlock}

ControlStep ==
    \/ \E env \in ConcAnswers : CFreeze(env)
    \/ \E pos \in ConcPositions, env \in ConcAnswers : CPosition(pos, env)
    \/ CTransform
    \/ CStore
    \/ CClearL
    \/ CClearR
    \/ CHop
    \/ CFinish
    \/ \E msg \in ConcNotify : CNotify(msg)
    \/ \E s \in ConcBuffers : CSetBuffer(s)
    \/ \E d \in ConcTicks : CTick(d)

AudioStep ==
    \/ \E n \in ConcBlocks : AStart(n)
    \/ AHop
    \/ ABin
    \/ AIfft
    \/ AAdd
    \/ AEmit
    \/ AShift

NextConc == ControlStep \/ AudioStep

SpecConc == InitConc /\ [][NextConc]_vars

\* ------------------------------------------------------------------------
\* Commands and audio blocks that do not overlap in time, sample by sample
\* ------------------------------------------------------------------------

\* The longest stretch of samples counted after a capture.
MaxSince == 4

\* The longest source (frames) and the most channels a capture is tried on.
MaxFrames == 8
MaxChannels == 3

\* Rates set while the audio runs (tenths): hop_size / rate is 3.33.. and 2.
SeqRates == {3, 5}

\* The audio history when a capture has just succeeded.
RunCaptured ==
    [since |-> 0, steady |-> TRUE, gap |-> -1, period |-> -1, hist |-> <<>>,
     ring |-> Fill(FftSize, 0), ptr |-> 0]

\* A command that leaves the object as y, between two blocks.
Command(op, y, captured) ==
    /\ aud.pc = "idle"
    /\ x' = y
    /\ call' = Called(op, "")
    /\ run' = IF captured THEN RunCaptured
              ELSE [run EXCEPT !.steady = FALSE,
                               !.gap = IF y.grain_rate = x.grain_rate
                                       THEN @ ELSE -1,
                               !.period = IF y.grain_rate = x.grain_rate
                                          THEN @ ELSE -1]
    /\ out_l' = <<>> /\ out_r' = <<>>
    /\ UNCHANGED <<now, ctl, aud, tag, arg, res>>

SeqFreeze(env) == Command("freeze", chiller_freeze(x, env), CaptureEntry(x, env).go)
SeqSetRate(a) == Command("rate", chiller_set_rate(x, a), FALSE)
SeqNotify(msg) == Command("notify", chiller_notify(x, msg), FALSE)
SeqSetBuffer(s) == Command("set", chiller_set_buffer(x, s), FALSE)

\* chiller_perform64 is entered with a block of `sampleframes`: lines
\* 196-207.
Begin(sampleframes) ==
    /\ aud.pc = "idle"
    /\ IF Silent(x)
       THEN /\ out_l' = Fill(sampleframes, 0)
            /\ out_r' = Fill(sampleframes, 0)
            /\ UNCHANGED aud
       ELSE /\ out_l' = <<>>
            /\ out_r' = <<>>
            /\ aud' = [aud EXCEPT !.pc = "loop", !.i = 0, !.n = sampleframes]
    /\ call' = Called("perform", IF Silent(x) THEN "silent" ELSE "sound")
    /\ UNCHANGED <<x, now, ctl, tag, arg, res, run>>

\* The ring buffer after a sample step that added the grain w at the
\* pointer, emitted and cleared the position under it, and moved on.
RingStep(ring, ptr, w) ==
    [k \in 1..Len(ring) |->
        IF k = ptr + 1 THEN 0
        ELSE ring[k] + w[((k - 1 - ptr + Len(ring)) % Len(ring)) + 1]]

\* Lines 208-253, one pass of the loop.
Sample ==
    /\ aud.pc = "loop"
    /\ LET s == SampleStep(x)
           h == <<[grain |-> s.grain, added |-> s.added]>> \o run.hist
       IN /\ x' = s.x
          /\ out_l' = Append(out_l, s.l)
          /\ out_r' = Append(out_r, s.r)
          /\ run' = [run EXCEPT
                        !.since = IF @ < MaxSince THEN @ + 1 ELSE @,
                        !.gap = IF s.grain THEN 0
                                ELSE IF @ >= 0 THEN @ + 1 ELSE @,
                        !.period = IF ~s.grain THEN @
                                   ELSE IF run.gap >= 0 THEN run.gap + 1 ELSE -1,
                        !.hist = IF Len(h) > FftSize THEN SubSeq(h, 1, FftSize)
                                 ELSE h,
                        !.ring = RingStep(@, run.ptr, s.added),
                        !.ptr = (@ + 1) % FftSize]
    /\ aud' = IF aud.i + 1 >= aud.n
              THEN [aud EXCEPT !.pc = "idle", !.i = 0, !.n = 0]
              ELSE [aud EXCEPT !.i = @ + 1]
    /\ UNCHANGED <<now, call, ctl, tag, arg, res>>

InitSeq == Init /\ now = 0

NextSeq ==
    \/ \E env \in {"ok", "short"} : SeqFreeze(env)
    \/ \E a \in SeqRates : SeqSetRate(a)
    \/ \E msg \in ConcNotify : SeqNotify(msg)
    \/ \E s \in BufferNames : SeqSetBuffer(s)
    \/ \E n \in BlockSizes : Begin(n)
    \/ Sample

SpecSeq == InitSeq /\ [][NextSeq]_vars

\* ------------------------------------------------------------------------
\* Construction with an integer argument
\* ------------------------------------------------------------------------
\* The object x has the scaled transform size FftSize; the sizes lines
\* 110-122 choose for the argument are kept beside it, in res.

\* Integer first arguments of the object box.
Requests ==
    {-2048, 0, 1, 256, 511, 512, 513, 768, 1000, 1023, 1024, 1025, 1536,
     2047, 2048, 2049, 3072, 4096, 6000, 8191, 8192, 8193, 10000, 16384}

NotMade == [fft_size |-> 0, hop_size |-> 0, error |-> FALSE]

InitNew ==
    /\ InitObject
    /\ now = 0
    /\ arg \in Requests
    /\ res = NotMade

\* chiller_new reads its first argument.
New ==
    /\ res = NotMade
    /\ res' = chiller_new_size(arg)
    /\ UNCHANGED <<x, now, out_l, out_r, call, ctl, aud, tag, arg, run>>

\* Messages and audio blocks to the object once made.
NextNew ==
    \/ New
    \/ /\ res # NotMade
       /\ \/ \E s \in BufferNames : SetBuffer(s)
          \/ \E env \in {"ok"} : Freeze(env)
          \/ \E msg \in ConcNotify : Notify(msg)
          \/ \E n \in BlockSizes : Perform(n)

SpecNew == InitNew /\ [][NextNew]_vars

\* ------------------------------------------------------------------------
\* The reads of a capture, for every position and source shape
\* ------------------------------------------------------------------------

\* Positions in tenths, sources of at least fft_size frames.
ReadArgs ==
    [position : 0..10, frames : FftSize..MaxFrames, channels : 1..MaxChannels]

InitRead ==
    /\ InitObject
    /\ now = 0
    /\ arg \in ReadArgs
    /\ res = [start |-> 0, reads |-> {}]

\* The copy loop of a capture at arg.position on a source of arg.frames
\* frames and arg.channels channels.
Read ==
    /\ call.op = "new"
    /\ res' = CaptureReads([x EXCEPT !.position = arg.position],
                           arg.frames, arg.channels)
    /\ call' = Called("read", "")
    /\ UNCHANGED <<x, now, out_l, out_r, ctl, aud, tag, arg, run>>

NextRead == Read

SpecRead == InitRead /\ [][NextRead]_vars

\* ------------------------------------------------------------------------
\* Two objects given the same messages, audio blocks, source answers and
\* random draws, and "overlap" messages with arguments of their own
\* ------------------------------------------------------------------------

\* The second object with the outputs and grain flags of its last block,
\* and the grain flags of the first object's last block.
Twin(y, l, r, g2, g) ==
    [twin |-> [x |-> y, out_l |-> l, out_r |-> r, grains |-> g2],
     grains |-> g]

InitTwin ==
    /\ InitObject
    /\ now = min_interval
    /\ arg = <<>>
    /\ res = Twin(x, <<>>, <<>>, <<>>, <<>>)

\* A message handled by both objects: y is the first object after it and
\* y2 the second.
Both(op, y, y2) ==
    /\ x' = y
    /\ res' = Twin(y2, <<>>, <<>>, <<>>, <<>>)
    /\ call' = Called(op, y.post)
    /\ out_l' = <<>> /\ out_r' = <<>>
    /\ UNCHANGED <<now, ctl, aud, tag, run>>

\* "overlap a" to the first object, "overlap b" to the second.
TwinOverlap(a, b) ==
    /\ Both("overlap", chiller_set_overlap(x, a),
            chiller_set_overlap(res.twin.x, b))
    /\ arg' = <<a, b>>

TwinFreeze(env) ==
    /\ Both("freeze", chiller_freeze(x, env), chiller_freeze(res.twin.x, env))
    /\ UNCHANGED arg

TwinPosition(pos, env) ==
    /\ Both("position", chiller_set_position(x, pos, now, env),
            chiller_set_position(res.twin.x, pos, now, env))
    /\ UNCHANGED arg

TwinSetBuffer(s) ==
    /\ Both("set", chiller_set_buffer(x, s), chiller_set_buffer(res.twin.x, s))
    /\ UNCHANGED arg

TwinNotify(msg) ==
    /\ Both("notify", chiller_notify(x, msg), chiller_notify(res.twin.x, msg))
    /\ UNCHANGED arg

TwinSetRate(a) ==
    /\ Both("rate", chiller_set_rate(x, a), chiller_set_rate(res.twin.x, a))
    /\ UNCHANGED arg

\* The grains of one audio block of n samples from object y.
BlockGrains(y, n) == IF Silent(y) THEN <<>> ELSE GrainFlags(y, n)

\* One audio block of the same size in both objects.
TwinPerform(sampleframes) ==
    /\ LET r == chiller_perform64(x, sampleframes)
           r2 == chiller_perform64(res.twin.x, sampleframes)
       IN /\ x' = r.x
          /\ out_l' = r.out_l
          /\ out_r' = r.out_r
          /\ res' = Twin(r2.x, r2.out_l, r2.out_r,
                         BlockGrains(res.twin.x, sampleframes),
                         BlockGrains(x, sampleframes))
    /\ call' = Called("perform", IF Silent(x) THEN "silent" ELSE "sound")
    /\ UNCHANGED <<now, ctl, aud, tag, arg, run>>

\* The clock both objects read advances.
TwinTick(d) ==
    /\ now + d <= MaxClock
    /\ now' = now + d
    /\ call' = Called("tick", "")
    /\ UNCHANGED <<x, out_l, out_r, ctl, aud, tag, arg, res, run>>

TwinAnswers == {"ok", "short"}

NextTwin ==
    \/ \E a \in OverlapArgs, b \in OverlapArgs : TwinOverlap(a, b)
    \/ \E env \in TwinAnswers : TwinFreeze(env)
    \/ \E pos \in ConcPositions, env \in TwinAnswers : TwinPosition(pos, env)
    \/ \E s \in BufferNames : TwinSetBuffer(s)
    \/ \E msg \in ConcNotify : TwinNotify(msg)
    \/ \E a \in SeqRates : TwinSetRate(a)
    \/ \E n \in BlockSizes : TwinPerform(n)
    \/ TwinTick(min_interval)

SpecTwin == InitTwin /\ [][NextTwin]_vars

\* ------------------------------------------------------------------------
\* Vocabulary of the properties
\* ------------------------------------------------------------------------

IsZero(v) == \A k \in DOMAIN v : v[k] = 0

\* The reports of a capture that failed.
CaptureFailures ==
    {"No buffer set", "Buffer not found", "Could not access buffer data",
     "Buffer too small"}

\* The parts of the engine the audio thread shares with a capture.
Engine(y) == <<y.frozen_spectrum, y.overlap_buffer_l, y.overlap_buffer_r, y.hop_counter>>

\* The object without its console line.
Quiet(y) == [y EXCEPT !.post = ""]

\* ------------------------------------------------------------------------
\* C1  Silence invariant
\* ------------------------------------------------------------------------

\* C1: an audio block of any size that starts while no spectrum is captured
\* or no source is bound writes exactly 0 to every left and right output
\* sample and leaves the hop counter and both overlap accumulators as they
\* were before the block.
C1_SilentBlock ==
    [][\A n \in BlockSizes :
          (/\ call'.op = "perform"
           /\ ~x.spectrum_captured \/ x.buffer_ref = NULL
           /\ Perform(n))
          => /\ Len(out_l') = n /\ IsZero(out_l')
             /\ Len(out_r') = n /\ IsZero(out_r')
             /\ x'.hop_counter = x.hop_counter
             /\ x'.overlap_buffer_l = x.overlap_buffer_l
             /\ x'.overlap_buffer_r = x.overlap_buffer_r]_vars

\* A silent block of the largest size has run while the accumulators still
\* held the tail of earlier grains.
C1_Witness ==
    /\ call = Called("perform", "silent")
    /\ Len(out_l) = MaxBlock
    /\ ~IsZero(x.overlap_buffer_l)
    /\ ~IsZero(x.overlap_buffer_r)
    /\ x.hop_counter > 0

\* ------------------------------------------------------------------------
\* C2  A failed capture and the `captured` flag
\* ------------------------------------------------------------------------

\* A capture has just failed, started by "freeze" or by "position".
FailedBy(op) == call'.op = op /\ call'.ret \in CaptureFailures

\* C2 as claimed: a failed capture leaves `captured` at the value it had
\* before the command that started the capture, on both trigger paths.
C2_CapturedAsBeforeCommand ==
    [][(FailedBy("freeze") \/ FailedBy("position"))
          => x'.spectrum_captured = x.spectrum_captured]_vars

\* C2 as amended: a failed capture leaves `captured` at the value it had
\* when the capture was entered: after a failed "freeze" the value before
\* the command, after an accepted "position" (which clears the flag before
\* it captures) false.
C2_CapturedAsAtCaptureEntry ==
    [][/\ FailedBy("freeze") => x'.spectrum_captured = x.spectrum_captured
       /\ FailedBy("position") => ~x'.spectrum_captured]_vars

\* A "freeze" has failed on a resized source while a spectrum was captured,
\* and the spectrum is still marked captured.
C2_Witness ==
    /\ call = Called("freeze", "Buffer too small")
    /\ x.spectrum_captured

\* ------------------------------------------------------------------------
\* C3  A failed capture changes nothing
\* ------------------------------------------------------------------------

\* C3: a capture that fails (no source bound, source not found, sample data
\* inaccessible, fewer than N frames) returns with the frozen spectrum,
\* both accumulators and the hop counter unchanged and with `capturing`
\* false; when no source is bound the object is left exactly as the capture
\* found it (for "position": as the command's own writes of position,
\* timestamp and `captured` left it).
C3_FailedCaptureFrame ==
    [][(FailedBy("freeze") \/ FailedBy("position"))
          => /\ Engine(x') = Engine(x)
             /\ ~x'.capturing_spectrum
             /\ (call'.ret = "No buffer set" /\ call'.op = "freeze")
                   => Quiet(x') = Quiet(x)
             /\ (call'.ret = "No buffer set" /\ call'.op = "position")
                   => Quiet(x') = Quiet([x EXCEPT !.position = x'.position,
                                                 !.last_position_change_time = now,
                                                 !.spectrum_captured = FALSE])]_vars

\* A capture has failed on a resized source while the accumulators held
\* grains, the hop counter was running and a spectrum was frozen.
C3_Witness ==
    /\ call.op \in {"freeze", "position"}
    /\ call.ret = "Buffer too small"
    /\ ~IsZero(x.overlap_buffer_l)
    /\ ~IsZero(x.overlap_buffer_r)
    /\ x.hop_counter > 0
    /\ x.frozen_spectrum # Fill(x.fft_size, <<0, 0>>)

\* ------------------------------------------------------------------------
\* C4  A successful capture
\* ------------------------------------------------------------------------

\* The discrete Fourier transform by its definition, with the sign of the
\* program's twiddle factors: bin k is the sum over n of v[n] i^(n k).
RECURSIVE DftSum(_, _, _)
DftSum(v, k, n) ==
    IF n >= Len(v) THEN <<0, 0>>
    ELSE CAdd(Rotate(<<At(v, n), 0>>, n * k), DftSum(v, k, n + 1))

\* The spectrum a capture of source `name` at position `position` is to
\* freeze: the transform of the windowed segment, rescaled to the target
\* energy.
Expected(name, position) ==
    LET b == Buffers[name]
        start == (position * (b.frames - FftSize)) \div 10
        hann == <<0, 3, 3, 0>>
        seg == [n \in 1..FftSize |-> (SourceFrame(b, start + n - 1) * hann[n]) \div 4]
        dft == [k \in 1..FftSize |-> DftSum(seg, k - 1, 0)]
        energy == dft[1][1] * dft[1][1] + dft[1][2] * dft[1][2]
                  + dft[2][1] * dft[2][1] + dft[2][2] * dft[2][2]
                  + dft[3][1] * dft[3][1] + dft[3][2] * dft[3][2]
                  + dft[4][1] * dft[4][1] + dft[4][2] * dft[4][2]
        factor == ISqrt((FftSize * 14400000) \div energy)
    IN [k \in 1..FftSize |-> <<(dft[k][1] * factor) \div 10, (dft[k][2] * factor) \div 10>>]

\* The same, tabulated over the sources and the positions (in tenths).
ExpectedTable ==
    [name \in BufferNames |-> [position \in 0..10 |-> Expected(name, position)]]

ExpectedSpectrum(name, position) == ExpectedTable[name][position]

\* C4: when a capture succeeds with no audio block running during it, then
\* on return the frozen spectrum is the new transform, every position of
\* both accumulators is 0, the hop counter is 0, `captured` is true and
\* `capturing` is false.
C4_SuccessfulCapture ==
    [][(call'.op \in {"freeze", "position"} /\ call'.ret = "Spectrum captured")
          => /\ x'.frozen_spectrum = ExpectedSpectrum(x'.buffer_ref, x'.position)
             /\ IsZero(x'.overlap_buffer_l)
             /\ IsZero(x'.overlap_buffer_r)
             /\ x'.hop_counter = 0
             /\ x'.spectrum_captured
             /\ ~x'.capturing_spectrum]_vars

\* A capture at the end of the stereo source has succeeded.
C4_Witness ==
    /\ call = Called("position", "Spectrum captured")
    /\ x.buffer_ref = "stereo"
    /\ x.position = 10
    /\ x.frozen_spectrum # Fill(x.fft_size, <<0, 0>>)
    /\ x.spectrum_captured

\* ------------------------------------------------------------------------
\* C5  Debounce of position changes
\* ------------------------------------------------------------------------

\* C5: a "position" message arriving less than 500 ms after the last
\* accepted position change is dropped: it leaves the whole object
\* (position, timestamp, `captured`, spectrum, accumulators, hop counter)
\* unchanged and starts no capture, so nothing is reported; one arriving
\* later is accepted and stamps the clock reading, so any two accepted
\* changes are at least 500 ms apart.
C5_Debounce ==
    [][call'.op = "position"
          => /\ (now - x.last_position_change_time < 500)
                   => (x' = x /\ call'.ret = "dropped")
             /\ (now - x.last_position_change_time >= 500)
                   => /\ x'.last_position_change_time = now
                      /\ x'.last_position_change_time - x.last_position_change_time >= 500
                      /\ call'.ret # "dropped"]_vars

\* A "position" message has been dropped 250 ms after an accepted one,
\* with a spectrum captured.
C5_Witness ==
    /\ call = Called("position", "dropped")
    /\ x.last_position_change_time >= 500
    /\ now - x.last_position_change_time = 250
    /\ x.spectrum_captured

\* ------------------------------------------------------------------------
\* C6  The first position request
\* ------------------------------------------------------------------------

\* C6: the first "position" message since construction is applied whatever
\* the clock reads when it arrives: position becomes the clamped argument
\* and last_position_change_time the arrival time.
C6_FirstRequestApplied ==
    [][\A pos \in PositionArgs :
          (/\ call.op = "new"
           /\ call'.op = "position"
           /\ \E env \in Answers : SetPosition(pos, env))
          => /\ x'.position = CLAMP(pos, 0, 10)
             /\ x'.last_position_change_time = now]_vars

\* ------------------------------------------------------------------------
\* C7  An accepted position change captures at once
\* ------------------------------------------------------------------------

\* C7: a "position" message that is accepted while no capture is in
\* progress clears `captured` and runs the capture to its end before it
\* returns: afterwards no capture is in progress, a capture report has been
\* made, and `captured` is true exactly when the capture succeeded, that
\* is when a source is bound and the provider answered "ok".
C7_AcceptedPositionCaptures ==
    [][\A pos \in PositionArgs, env \in Answers :
          (/\ call'.op = "position"
           /\ now - x.last_position_change_time >= 500
           /\ ~x.capturing_spectrum
           /\ SetPosition(pos, env))
          => /\ x'.spectrum_captured <=> (x.buffer_ref # NULL /\ env = "ok")
             /\ x'.spectrum_captured <=> (x'.post = "Spectrum captured")
             /\ x'.post \in CaptureFailures \cup {"Spectrum captured"}
             /\ ~x'.capturing_spectrum
             /\ x'.locked = 0]_vars

\* An accepted position change has found the sample data inaccessible:
\* the spectrum frozen earlier is still there but no longer marked captured.
C7_Witness ==
    /\ call = Called("position", "Could not access buffer data")
    /\ ~x.spectrum_captured
    /\ x.last_position_change_time = now
    /\ x.frozen_spectrum # Fill(x.fft_size, <<0, 0>>)

\* ------------------------------------------------------------------------
\* C8  Freeze bypasses the debounce
\* ------------------------------------------------------------------------

\* C8: "freeze" runs the capture whatever the time since the last accepted
\* position change: with a source bound and the provider answering "ok" it
\* freezes the new spectrum, otherwise it reports the failure; in every
\* outcome it leaves last_position_change_time and position unchanged.
C8_FreezeUnconditional ==
    [][\A env \in Answers :
          (call'.op = "freeze" /\ Freeze(env))
          => /\ x'.last_position_change_time = x.last_position_change_time
             /\ x'.position = x.position
             /\ (x.buffer_ref # NULL /\ env = "ok")
                   => /\ x'.spectrum_captured
                      /\ x'.post = "Spectrum captured"
                      /\ x'.frozen_spectrum = ExpectedSpectrum(x.buffer_ref, x.position)
             /\ (x.buffer_ref = NULL \/ env # "ok") => x'.post \in CaptureFailures]_vars

\* A "freeze" has succeeded 250 ms after an accepted position change.
C8_Witness ==
    /\ call = Called("freeze", "Spectrum captured")
    /\ x.last_position_change_time >= 500
    /\ now - x.last_position_change_time = 250
    /\ x.spectrum_captured

\* ------------------------------------------------------------------------
\* C9
\* ------------------------------------------------------------------------

\* The spectra a capture of the bound source can publish, one for each
\* position a message can set.
CaptureSpectra(name) == {ExpectedSpectrum(name, p) : p \in {0, 5, 10}}

\* The grain about to be transformed was read from bins that two captures
\* wrote, and what was read is the spectrum of no capture.
TornGrain ==
    /\ aud.pc = "ifft"
    /\ Cardinality(aud.tags) > 1
    /\ x.buffer_ref # NULL
    /\ aud.read \notin CaptureSpectra(x.buffer_ref)

\* The capture has zeroed the left accumulator (line 498) and not yet the
\* right one (line 499).
PartlyZeroed == ctl.pc = "clearr"

\* C9: under every interleaving of a capture with the audio block, the
\* producer never synthesizes a grain from a frozen spectrum that is partly
\* the old and partly the new capture, and never emits from or shifts
\* accumulators that the capture has zeroed only in part.
C9_AtomicPublication ==
    [][(aud' # aud) =>
          /\ ~TornGrain
          /\ (aud.pc \in {"emit", "shift"} => ~PartlyZeroed)]_vars

\* ------------------------------------------------------------------------
\* C10
\* ------------------------------------------------------------------------

\* The last sample of a block's output so far.
Last(v) == v[Len(v)]

\* C10: once `captured` is false or the source is unbound while the
\* producer is part-way through a block, a step of the producer changes
\* neither the hop counter nor the accumulators, and a sample it emits is 0.
C10_SilentMidBlock ==
    [][(aud' # aud /\ aud.pc # "idle" /\ Silent(x)) =>
          /\ x'.hop_counter = x.hop_counter
          /\ x'.overlap_buffer_l = x.overlap_buffer_l
          /\ x'.overlap_buffer_r = x.overlap_buffer_r
          /\ (out_l' # out_l => Last(out_l') = 0 /\ Last(out_r') = 0)]_vars

\* ------------------------------------------------------------------------
\* C11
\* ------------------------------------------------------------------------

\* C11: the read lock on the sample source is released on every exit path
\* of a capture: when a control command has returned, every acquisition has
\* been followed by exactly one release and no release came without an
\* acquisition, so no lock is outstanding.
C11_LockReleased == x.locked = 0

\* A capture that took the lock and left by the exit for too few frames.
C11_Witness ==
    /\ call.op \in {"freeze", "position"}
    /\ call.ret = "Buffer too small"
    /\ x.locked = 0

\* ------------------------------------------------------------------------
\* C12
\* ------------------------------------------------------------------------

\* Every parameter of y is inside its range (tenths).
InRange(y) ==
    /\ 0 <= y.position /\ y.position <= 10
    /\ 10 <= y.overlap_amount /\ y.overlap_amount <= 80
    /\ 1 <= y.grain_rate /\ y.grain_rate <= 40
    /\ 0 <= y.phase_randomness /\ y.phase_randomness <= 10
    /\ 0 <= y.amplitude_variation /\ y.amplitude_variation <= 5

\* v is what a write of a to a parameter of range [lo, hi] stores.
Stored(a, lo, hi, v) ==
    /\ (a < lo => v = lo)
    /\ (a > hi => v = hi)
    /\ (lo <= a /\ a <= hi => v = a)

\* C12: after construction and after any sequence of setter messages every
\* parameter is inside its range; an argument below the range stores the
\* lower bound, one above the upper bound, one inside is stored unchanged
\* (for the position: when the message passes the debounce).
C12_ParameterRanges ==
    [][/\ InRange(x)
       /\ InRange(x')
       /\ (call'.op = "overlap" => Stored(arg', 10, 80, x'.overlap_amount))
       /\ (call'.op = "rate" => Stored(arg', 1, 40, x'.grain_rate))
       /\ (call'.op = "phaserand" => Stored(arg', 0, 10, x'.phase_randomness))
       /\ (call'.op = "ampvar" => Stored(arg', 0, 5, x'.amplitude_variation))
       /\ (call'.op = "position" /\ call'.ret # "dropped"
              => Stored(arg', 0, 10, x'.position))]_vars

\* "overlap -5" has stored 1.0 after "overlap 100" stored 8.0.
C12_Witness ==
    /\ call.op = "overlap"
    /\ arg = -50
    /\ x.overlap_amount = 10
    /\ x.grain_rate = 40
    /\ x.position = 10

\* ------------------------------------------------------------------------
\* C13
\* ------------------------------------------------------------------------

\* The least integer not below a / b, for b > 0.
CeilDiv(a, b) == (a + b - 1) \div b

\* ceil(hop_size / grain_rate), the rate in tenths.
HopPeriod(y) == CeilDiv(y.hop_size * 10, y.grain_rate)

\* A step that processes one sample.
SampleProcessed == aud.pc = "loop" /\ aud' # aud

\* C13: on every sample processed the hop counter goes up by one and,
\* exactly when it is then >= hop_size / grain_rate, it is reset to 0 and a
\* grain is synthesized; so afterwards 0 <= hop_counter < hop_size /
\* grain_rate, and with the rate unchanged and no capture two consecutive
\* grains are ceil(hop_size / grain_rate) samples apart, also across blocks.
C13_HopRule ==
    [][SampleProcessed =>
          LET reached == (x.hop_counter + 1) * x.grain_rate >= x.hop_size * 10
          IN /\ run'.hist[1].grain = reached
             /\ x'.hop_counter = IF reached THEN 0 ELSE x.hop_counter + 1
             /\ 0 <= x'.hop_counter
             /\ x'.hop_counter * x.grain_rate < x.hop_size * 10
             /\ run'.period \in {-1, HopPeriod(x)}]_vars

\* At rate 0.3 a grain comes on the first sample of a block, 4 samples
\* after the grain before it.
C13_Witness ==
    /\ x.grain_rate = 3
    /\ aud.pc = "loop"
    /\ aud.i = 1
    /\ run.gap = 0
    /\ run.period = 4

\* ------------------------------------------------------------------------
\* C14
\* ------------------------------------------------------------------------

\* C14: on every sample processed each channel emits (0.1 times) position
\* 0 of its accumulator as it stands after any grain added on that sample;
\* then in both accumulators the new position i is the old position i+1 for
\* 0 <= i < N-1 and position N-1 is 0.
C14_SlidingStep ==
    [][SampleProcessed =>
          LET g == run'.hist[1].added
              N == x.fft_size
              l == [j \in 1..N |-> x.overlap_buffer_l[j] + g[j] * 8]
              r == [j \in 1..N |-> x.overlap_buffer_r[j] + g[j] * 10]
          IN /\ out_l' = Append(out_l, l[1])
             /\ out_r' = Append(out_r, r[1])
             /\ \A i \in 1..(N - 1) :
                    /\ x'.overlap_buffer_l[i] = l[i + 1]
                    /\ x'.overlap_buffer_r[i] = r[i + 1]
             /\ x'.overlap_buffer_l[N] = 0
             /\ x'.overlap_buffer_r[N] = 0]_vars

\* A sample step has added a grain onto accumulators that still held an
\* earlier one, emitted a sample that is not 0 and shifted.
C14_Witness ==
    /\ aud.pc = "loop"
    /\ Len(run.hist) >= 2
    /\ run.hist[1].grain
    /\ run.hist[2].grain
    /\ Len(out_r) > 0
    /\ Last(out_r) # 0
    /\ Last(out_l) # 0
    /\ x.overlap_buffer_r[1] # 0
    /\ x.overlap_buffer_r[FftSize] = 0

\* ------------------------------------------------------------------------
\* C15
\* ------------------------------------------------------------------------

\* r is a power of two with 512 <= r <= 8192.
ValidSize(r) == r \in {512, 1024, 2048, 4096, 8192}

\* C15: for every integer construction argument r, N = r when r is a power
\* of two with 512 <= r <= 8192, otherwise N = 2048 with a warning; in
\* every case hop size = N/4, and no message or audio block changes N or
\* the hop size afterwards.
C15_FftSizeSelection ==
    [][/\ (res' # NotMade =>
              /\ res'.fft_size = IF ValidSize(arg') THEN arg' ELSE 2048
              /\ res'.error = ~ValidSize(arg')
              /\ res'.hop_size * 4 = res'.fft_size)
       /\ (res # NotMade => res' = res)
       /\ x'.fft_size = x.fft_size
       /\ x'.hop_size = x.hop_size
       /\ x'.hop_size * 4 = x'.fft_size]_vars

\* An object made with 1536, in range and no power of two, has played a
\* block after a capture.
C15_Witness ==
    /\ arg = 1536
    /\ res.fft_size = 2048
    /\ res.hop_size = 512
    /\ res.error
    /\ call.op = "perform"
    /\ call.ret = "sound"

\* ------------------------------------------------------------------------
\* C16
\* ------------------------------------------------------------------------

\* The sum over the grains of h (latest first, one entry a sample step) of
\* each grain at its offset: the grain k - 1 steps back at offset k - 1.
RECURSIVE DirectSum(_, _)
DirectSum(h, k) ==
    IF k > Len(h) THEN 0 ELSE h[k].added[k] + DirectSum(h, k + 1)

\* C16: with no capture in between, the right sample emitted at a step is
\* (0.1 times) the sum, over the grains triggered at most N - 1 steps
\* before since the last capture, of the windowed grain at the offset of
\* this step, the left sample 0.8 times that; a ring buffer read at a
\* moving pointer and fed the same grains emits the same samples.
C16_DirectOverlapAdd ==
    [][SampleProcessed =>
          LET direct == DirectSum(run'.hist, 1)
              ringed == run.ring[run.ptr + 1] + run'.hist[1].added[1]
          IN /\ Last(out_r') = direct * 10
             /\ Last(out_l') = direct * 8
             /\ ringed = direct]_vars

\* A sample emitted from two grains that overlap at this step.
C16_Witness ==
    /\ aud.pc = "loop"
    /\ Len(run.hist) >= 3
    /\ run.hist[2].added[2] # 0
    /\ run.hist[3].added[3] # 0
    /\ Len(out_r) > 0
    /\ Last(out_r) # run.hist[2].added[2] * 10
    /\ Last(out_r) # run.hist[3].added[3] * 10
    /\ Last(out_r) # 0

\* ------------------------------------------------------------------------
\* C17
\* ------------------------------------------------------------------------

\* C17: for every position in [0,1], frame count F >= N and channel count
\* C >= 1 the start frame is floor(position * (F - N)), with 0 <= start
\* frame <= F - N, and every index read (start + i for C = 1, 2*(start + i)
\* and 2*(start + i) + 1 otherwise, 0 <= i < N) lies in [0, F*C).
C17_ReadsInsideSource ==
    call.op = "read" =>
        LET F == arg.frames
            C == arg.channels
            N == x.fft_size
            start == res.start
        IN /\ start * 10 <= arg.position * (F - N)
           /\ arg.position * (F - N) < (start + 1) * 10
           /\ 0 <= start /\ start <= F - N
           /\ res.reads = IF C = 1
                          THEN {start + i : i \in 0..(N - 1)}
                          ELSE {2 * (start + i) : i \in 0..(N - 1)}
                               \cup {2 * (start + i) + 1 : i \in 0..(N - 1)}
           /\ \A k \in res.reads : 0 <= k /\ k < F * C

\* Position 1.0 on a source of three channels: the last frame is read.
C17_Witness ==
    /\ call.op = "read"
    /\ arg.position = 10
    /\ arg.channels = 3
    /\ arg.frames = FftSize + 2
    /\ res.start = 2
    /\ 2 * (arg.frames - 1) + 1 \in res.reads

\* ------------------------------------------------------------------------
\* C18
\* ------------------------------------------------------------------------

\* C18: after a successful capture, with the rate unchanged and no further
\* command, no grain is triggered and every output sample is 0 during the
\* first ceil(hop_size / grain_rate) - 1 samples processed, and the first
\* grain is triggered on the ceil(hop_size / grain_rate)-th sample, wherever
\* the block boundaries fall.
C18_FirstGrain ==
    [][(SampleProcessed /\ run.steady /\ run.since < MaxSince) =>
          LET nth == run.since + 1
          IN /\ (nth < HopPeriod(x) =>
                    /\ ~run'.hist[1].grain
                    /\ Last(out_l') = 0
                    /\ Last(out_r') = 0)
             /\ (nth = HopPeriod(x) => run'.hist[1].grain)]_vars

\* At rate 0.3 the first grain after a capture comes on the 4th sample,
\* which is the first sample of a block.
C18_Witness ==
    /\ x.grain_rate = 3
    /\ run.steady
    /\ run.since = 4
    /\ run.gap = 0
    /\ run.period = -1
    /\ Len(run.hist) = 4
    /\ run.hist[1].grain
    /\ \A k \in 2..4 : ~run.hist[k].grain
    /\ aud.pc = "loop"
    /\ aud.i = 1

\* ------------------------------------------------------------------------
\* C19
\* ------------------------------------------------------------------------

\* C19: under every interleaving of a capture started by freeze with audio
\* blocks that synthesize grains, the frozen spectrum the capture has stored
\* when it returns is the normalized transform of the windowed source
\* segment, with nothing in it that grain synthesis wrote to the workspace,
\* and the grain added to the accumulators is the inverse transform of the
\* perturbed bins the audio thread wrote, with nothing in it that the
\* capture wrote.
C19_WorkspacePrivate ==
    [][/\ (ctl.pc = "finish" /\ ctl'.pc = "idle" /\ ctl.op = "freeze"
              => x'.frozen_spectrum = ExpectedSpectrum(x.buffer_ref, x.position))
       /\ (aud.pc = "add" /\ aud' # aud
              => x.fft_buffer = chiller_ifft(aud.wrote))]_vars

\* ------------------------------------------------------------------------
\* C20
\* ------------------------------------------------------------------------

\* C20: when commands and audio blocks do not overlap in time, after any
\* sequence of captures, grains and sample steps every position j of the
\* accumulators has left[j] = 0.8 * right[j], and every left sample emitted
\* is 0.8 times the right sample of the same step.
C20_StereoGain ==
    /\ \A j \in 1..Len(x.overlap_buffer_l) :
           x.overlap_buffer_l[j] * 10 = x.overlap_buffer_r[j] * 8
    /\ Len(out_l) = Len(out_r)
    /\ \A k \in 1..Len(out_l) : out_l[k] * 10 = out_r[k] * 8

\* A second capture has come between grains, and the block after it has
\* emitted a sample that is not 0 from accumulators that are not 0.
C20_Witness ==
    /\ aud.pc = "loop"
    /\ aud.i = 1
    /\ run.steady
    /\ run.since = 3
    /\ out_r[1] # 0
    /\ \E j \in 1..Len(x.overlap_buffer_r) : x.overlap_buffer_r[j] # 0
    /\ x.post = "Spectrum captured"
    /\ x.buffer_ref = "stereo"

\* ------------------------------------------------------------------------
\* C21
\* ------------------------------------------------------------------------

\* C21: after a "set" command or a binding-change notification `captured`
\* is false; `captured` goes from false to true only in a command whose
\* capture succeeds, so it stays false until then; every audio block that
\* starts while it is false is silent; and in every reachable state
\* `captured` true implies that a source reference is bound.
C21_Invalidation ==
    /\ [](x.spectrum_captured => x.buffer_ref # NULL)
    /\ [][/\ call'.op = "set" => ~x'.spectrum_captured
          /\ call' = Called("notify", "globalsymbol_binding")
                => ~x'.spectrum_captured
          /\ ~x.spectrum_captured /\ x'.spectrum_captured
                => /\ call'.op \in {"freeze", "position"}
                   /\ call'.ret = "Spectrum captured"
          /\ ~x.spectrum_captured /\ call'.op = "perform"
                => /\ Len(out_l') \in BlockSizes /\ IsZero(out_l')
                   /\ Len(out_r') \in BlockSizes /\ IsZero(out_r')
                   /\ ~x'.spectrum_captured]_vars

\* A capture succeeded, the flag was then taken down by "set" or by the
\* notification while the accumulators still held grains, and the audio
\* block that started after it was silent.
C21_Witness ==
    /\ call = Called("perform", "silent")
    /\ x.post = "Spectrum captured"
    /\ ~x.spectrum_captured
    /\ x.buffer_ref # NULL
    /\ ~IsZero(x.overlap_buffer_r)
    /\ Len(out_r) = MaxBlock

\* ------------------------------------------------------------------------
\* C22
\* ------------------------------------------------------------------------

\* C22: two runs given the same commands, audio blocks, source answers and
\* random draws, and differing only in the arguments of their "overlap"
\* commands, synthesize grains at the same samples, emit the same left and
\* right samples and agree on every field of the object except the stored
\* overlap amount.
C22_OverlapNoInfluence ==
    /\ res.grains = res.twin.grains
    /\ out_l = res.twin.out_l
    /\ out_r = res.twin.out_r
    /\ x = [res.twin.x EXCEPT !.overlap_amount = x.overlap_amount]

\* The two runs hold the smallest and the largest overlap amount, and the
\* last block of the largest size made a grain at one sample and none at
\* the other and emitted a sample that is not 0.
C22_Witness ==
    /\ call = Called("perform", "sound")
    /\ x.overlap_amount = 10
    /\ res.twin.x.overlap_amount = 80
    /\ Len(res.grains) = MaxBlock
    /\ \E i, j \in 1..Len(res.grains) : res.grains[i] /\ ~res.grains[j]
    /\ ~IsZero(out_l)

====
